---- MODULE Spec2Model ----
(***************************************************************************)
(* Model of the signal bot: SignalGenerator.generate (level construction   *)
(* and gating), the sqlite trade store (database.py), the SignalTracker    *)
(* check cycle (signal_tracker.py) and the Engine scan cycle (main.py).    *)
(*                                                                         *)
(* Numbers.  Prices are integers (ticks).  Probabilities and confidences   *)
(* are percentages (0..100).  ATR multipliers are kept in halves, the      *)
(* averaging distance in hundredths and position weights in tenths, so     *)
(* every comparison of the code is decided exactly by integer arithmetic;  *)
(* a realized pnl is the exact fraction <<numerator, denominator>>.        *)
(* A missing value (Python None, a missing dict key, SQL NULL) is 0: every *)
(* price the program stores is > 0.                                        *)
(***************************************************************************)
EXTENDS Integers, Sequences, FiniteSets, TLC

VARIABLES
    cfg,             \* config.py values the engine was started with
    trades,          \* table trades: sequence of rows, id = index
    price_cache,     \* SignalTracker.price_cache: symbol -> price (0 = no key)
    pc,              \* position of the check coroutine
    active_signals,  \* check_all_signals: rows loaded by get_open_trades (ids)
    loaded,          \* the same rows as they were loaded (the dicts)
    idx,             \* check_all_signals: index of the signal being checked
    results,         \* check_all_signals: list being built / returned
    tp_results,      \* _check_signal: tp_results of the signal being checked
    fetched,         \* symbols whose price fetch succeeded in this cycle
    notified,        \* notifier calls of the current check cycle, in order
    delivered,       \* for each of them: did bot.send_message succeed
    sent_count,      \* history: notifier calls per <<id, type>>
    close_count,     \* history: close_trade applications per id
    run_pc,          \* position of the scan coroutine (Engine.run)
    all_data,        \* Engine.run: symbols still to be processed
    sent,            \* Engine.run: signals sent in this run
    propagated,      \* tasks whose exception left Engine.run / check_signals
    gen_in,          \* input of the generate call under study
    gen_out,         \* its result
    busy,            \* the runner whose blocking step occupies the event-loop thread
    ta_in,           \* last two rows handed to get_signal_strength
    ta_out,          \* its result
    trained,         \* MLPredictor.trained
    pred_in,         \* frame of the latest predict call
    pred_out,        \* its result
    fit_passes,      \* history: calls of model.fit since construction
    pnl_log,         \* history: pnl of the latest event of each (position, type)
    watch            \* history: how the current check cycle relates to the one before

vars == <<cfg, trades, price_cache, pc, active_signals, loaded, idx, results, tp_results,
          fetched, notified, delivered, sent_count, close_count, run_pc, all_data,
          sent, propagated, gen_in, gen_out, busy, ta_in, ta_out, trained, pred_in,
          pred_out, fit_passes, watch, pnl_log>>

trackerVars == <<price_cache, pc, active_signals, loaded, idx, results, tp_results,
                 fetched, notified, delivered, sent_count, close_count, pnl_log>>
scanVars == <<run_pc, all_data, sent, busy>>
predVars == <<ta_in, ta_out, trained, pred_in, pred_out, fit_passes>>
genVars == <<gen_in, gen_out, predVars>>

----------------------------------------------------------------------------
(* Bounds of the model *)

MaxTrades == 2
MaxScore == 3

(* config.py: fixed values *)

ATR_MULTIPLIER_SL == 1
ATR_MULTIPLIER_TP1 == 2
ATR_MULTIPLIER_TP2 == 4
ATR_MULTIPLIER_TP3 == 7
POSITION_SIZE_A == 7
POSITION_SIZE_B == 3
AVERAGING_DISTANCE == 2
MIN_ADX == 20

Symbols == {"BTC"}
SymbolOrder == <<"BTC">>
Sides == {"LONG", "SHORT"}
EventTypes == {"STOP_LOSS", "TP1", "TP2", "TP3_FULL"}

(* config.py values that vary between deployments *)
GenConfigs ==
    [MIN_CONFIDENCE : {40, 60}, MAX_SIGNALS_PER_RUN : {2},
     ENABLE_AVERAGING : BOOLEAN, POSITION_SIZE_A : {POSITION_SIZE_A},
     POSITION_SIZE_B : {POSITION_SIZE_B}]
DefaultConfig ==
    [MIN_CONFIDENCE |-> 60, MAX_SIGNALS_PER_RUN |-> 2, ENABLE_AVERAGING |-> TRUE,
     POSITION_SIZE_A |-> POSITION_SIZE_A, POSITION_SIZE_B |-> POSITION_SIZE_B]

Max(a, b) == IF a >= b THEN a ELSE b
Abs(a) == IF a >= 0 THEN a ELSE -a

----------------------------------------------------------------------------
(* technical_analysis.py, ml_predictor.py: what generate consumes *)

\* get_signal_strength with the sign of the net score kept in the confidence
SignalStrengthSigned(bullish_signals, bearish_signals) ==
    [bullish_score |-> bullish_signals,
     bearish_score |-> bearish_signals,
     net_score |-> bullish_signals - bearish_signals,
     conf_num |-> bullish_signals - bearish_signals,
     conf_den |-> Max(bullish_signals + bearish_signals, 1)]

\* get_signal_strength: the result record from the two point tallies
SignalStrength(bullish_signals, bearish_signals) ==
    [bullish_score |-> bullish_signals,
     bearish_score |-> bearish_signals,
     net_score |-> bullish_signals - bearish_signals,
     conf_num |-> Abs(bullish_signals - bearish_signals),
     conf_den |-> Max(bullish_signals + bearish_signals, 1)]

\* the comparison of line 184 with the tie given to the long side
PredictTieLong(proba) ==
    IF ~proba.ok
    THEN [direction |-> 0, confidence |-> 0]
    ELSE [direction |-> IF proba.long >= proba.short THEN 1 ELSE -1,
          confidence |-> Max(proba.long, proba.short)]

\* predict: proba.ok = FALSE stands for every fail-soft return (unfit model,
\* missing feature, NaN, exception, fewer than two classes)
Predict(proba) ==
    IF ~proba.ok
    THEN [direction |-> 0, confidence |-> 0]
    ELSE [direction |-> IF proba.long > proba.short THEN 1 ELSE -1,
          confidence |-> Max(proba.long, proba.short)]

----------------------------------------------------------------------------
(* technical_analysis.py: get_signal_strength, block by block.  A frame f  *)
(* holds the columns of the last row and the MACD columns of the row       *)
(* before it; every block yields <<bullish points, bearish points>>.       *)

RsiPoints(f) ==
    IF f.rsi < 30 THEN <<2, 0>>
    ELSE IF f.rsi > 70 THEN <<0, 2>>
    ELSE IF f.rsi < 45 THEN <<1, 0>>
    ELSE IF f.rsi > 55 THEN <<0, 1>>
    ELSE <<0, 0>>

MacdPoints(f) ==
    IF f.macd > f.macd_signal /\ f.prev_macd <= f.prev_macd_signal THEN <<2, 0>>
    ELSE IF f.macd < f.macd_signal /\ f.prev_macd >= f.prev_macd_signal THEN <<0, 2>>
    ELSE IF f.macd > f.macd_signal THEN <<1, 0>>
    ELSE <<0, 1>>

MaPoints(f) ==
    IF f.close > f.sma_20 /\ f.sma_20 > f.sma_50 THEN <<2, 0>>
    ELSE IF f.close < f.sma_20 /\ f.sma_20 < f.sma_50 THEN <<0, 2>>
    ELSE <<0, 0>>

BbPoints(f) ==
    IF f.close < f.bb_lower THEN <<2, 0>>
    ELSE IF f.close > f.bb_upper THEN <<0, 2>>
    ELSE <<0, 0>>

StochPoints(f) ==
    IF f.stoch_k < 20 /\ f.stoch_k > f.stoch_d THEN <<1, 0>>
    ELSE IF f.stoch_k > 80 /\ f.stoch_k < f.stoch_d THEN <<0, 1>>
    ELSE <<0, 0>>

\* volume_ratio is kept in tenths
VolumePoints(f) ==
    IF f.volume_ratio > 15
    THEN IF f.close > f.open THEN <<1, 0>> ELSE <<0, 1>>
    ELSE <<0, 0>>

get_signal_strength(f) ==
    LET blocks == <<RsiPoints(f), MacdPoints(f), MaPoints(f), BbPoints(f),
                    StochPoints(f), VolumePoints(f)>>
        bullish_signals == blocks[1][1] + blocks[2][1] + blocks[3][1] + blocks[4][1]
                           + blocks[5][1] + blocks[6][1]
        bearish_signals == blocks[1][2] + blocks[2][2] + blocks[3][2] + blocks[4][2]
                           + blocks[5][2] + blocks[6][2]
    IN  SignalStrength(bullish_signals, bearish_signals)

\* no frame: the scorer is not the unit exercised
NoRows ==
    [rsi |-> 0, macd |-> 0, macd_signal |-> 0, prev_macd |-> 0, prev_macd_signal |-> 0,
     close |-> 0, open |-> 0, sma_20 |-> 0, sma_50 |-> 0, bb_lower |-> 0, bb_upper |-> 0,
     stoch_k |-> 0, stoch_d |-> 0, volume_ratio |-> 0]

\* ta_out before get_signal_strength has returned
PendingStrength ==
    [bullish_score |-> -1, bearish_score |-> -1, net_score |-> 0, conf_num |-> 0,
     conf_den |-> 1]

----------------------------------------------------------------------------
(* ml_predictor.py.  A frame f of predict: f.features = every column of    *)
(* FEATURES is present, f.rows = rows left for training after dropna,      *)
(* f.last_nan = a feature of the last row is NaN, f.accuracy = what        *)
(* model.score returns after a fit (percent), f.predict_proba = how        *)
(* model.predict_proba ends, f.proba = the two class probabilities.        *)
(* model.fit and model.score are taken to return on a frame that passed    *)
(* the checks of lines 99-110.                                             *)

MinTrainRows == 50

\* train_on_historical with the row-count check of lines 108-110 left out
train_on_historical_any_rows(f) ==
    IF ~f.features
    THEN [accuracy |-> 0, fits |-> 0]
    ELSE [accuracy |-> f.accuracy, fits |-> 1]

\* train_on_historical: the accuracy returned, and whether model.fit ran
\* (self.trained = True follows it at once)
train_on_historical(f) ==
    IF ~f.features
    THEN [accuracy |-> 0, fits |-> 0]
    ELSE IF f.rows < MinTrainRows
    THEN [accuracy |-> 0, fits |-> 0]
    ELSE [accuracy |-> f.accuracy, fits |-> 1]

\* return {'direction': 0, 'confidence': 0.0}
FailSoft == [direction |-> 0, confidence |-> 0, raised |-> FALSE]

\* predict, lines 148-194, with the NaN check of lines 156-161 left out
predict_row_unchecked(f) ==
    IF ~f.features THEN FailSoft
    ELSE IF f.predict_proba = "raises" THEN FailSoft
    ELSE IF f.predict_proba = "one_class" THEN FailSoft
    ELSE [direction |-> Predict(f.proba).direction,
          confidence |-> Predict(f.proba).confidence, raised |-> FALSE]

\* predict, lines 148-194: the checks of the last row, predict_proba inside
\* try / except Exception, the two class probabilities
predict_row(f) ==
    IF ~f.features THEN FailSoft
    ELSE IF f.last_nan THEN FailSoft
    ELSE IF f.predict_proba = "raises" THEN FailSoft
    ELSE IF f.predict_proba = "one_class" THEN FailSoft
    ELSE [direction |-> Predict(f.proba).direction,
          confidence |-> Predict(f.proba).confidence, raised |-> FALSE]

\* predict(df) called with self.trained = was_trained: the result, the flag
\* afterwards and the number of fit passes the call ran
predict(was_trained, f) ==
    IF was_trained
    THEN [result |-> predict_row(f), trained |-> TRUE, fits |-> 0]
    ELSE LET t == train_on_historical(f)
         IN  [result |-> IF t.accuracy = 0 THEN FailSoft ELSE predict_row(f),
              trained |-> t.fits = 1,
              fits |-> t.fits]

\* no predict call yet
NoFrame ==
    [features |-> FALSE, rows |-> 0, last_nan |-> FALSE, accuracy |-> 0,
     predict_proba |-> "none", proba |-> [ok |-> FALSE, long |-> 0, short |-> 0]]

\* scorer and predictor at rest
AnalysisIdle ==
    /\ ta_in = NoRows
    /\ ta_out = PendingStrength
    /\ trained = FALSE
    /\ pred_in = NoFrame
    /\ pred_out = FailSoft
    /\ fit_passes = 0

----------------------------------------------------------------------------
(* signal_generator.py *)

\* an exception leaving generate
Raised ==
    [symbol |-> "", side |-> "RAISED", entry_a |-> 0, entry_b |-> 0, stop |-> 0,
     tp1 |-> 0, tp2 |-> 0, tp3 |-> 0, conf_num |-> 0, conf_den |-> 1]

NoSignal ==
    [symbol |-> "", side |-> "NONE", entry_a |-> 0, entry_b |-> 0, stop |-> 0,
     tp1 |-> 0, tp2 |-> 0, tp3 |-> 0, conf_num |-> 0, conf_den |-> 1]

\* combined_conf = (ta + ml) / 2 as a fraction of 1: num / den
CombinedConfNum(strength, ml_pred) ==
    100 * strength.conf_num + ml_pred.confidence * strength.conf_den
CombinedConfDen(strength) == 200 * strength.conf_den

\* the confidence gate left out
LowConfidenceNever(c, strength, ml_pred) == FALSE

\* combined_conf < MIN_CONFIDENCE
LowConfidence(c, strength, ml_pred) ==
    100 * CombinedConfNum(strength, ml_pred) < c.MIN_CONFIDENCE * CombinedConfDen(strength)

\* the trend gate left out
WeakTrendNever(current_adx) == FALSE

\* current_adx < MIN_ADX
WeakTrend(current_adx) == current_adx < MIN_ADX

\* (direction == 1 and net_score <= 0) or (direction == -1 and net_score >= 0)
Disagree(direction, net_score) ==
    \/ (direction = 1 /\ net_score <= 0)
    \/ (direction = -1 /\ net_score >= 0)

SideOf(direction) == IF direction = 1 THEN "LONG" ELSE "SHORT"

\* atr * ATR_MULTIPLIER_x, the multiplier being kept in halves
Dist(atr, mult) == (atr * mult) \div 2

\* the levels with the SHORT branch built like the LONG branch
LevelsLongOnly(c, symbol, side, price, atr, strength, ml_pred) ==
    [symbol |-> symbol, side |-> side,
     entry_a |-> price,
     entry_b |-> IF c.ENABLE_AVERAGING
                 THEN (price * (100 - AVERAGING_DISTANCE)) \div 100 ELSE 0,
     stop |-> price - ((atr * ATR_MULTIPLIER_SL) \div 2),
     tp1 |-> price + ((atr * ATR_MULTIPLIER_TP1) \div 2),
     tp2 |-> price + ((atr * ATR_MULTIPLIER_TP2) \div 2),
     tp3 |-> price + ((atr * ATR_MULTIPLIER_TP3) \div 2),
     conf_num |-> 100 * strength.conf_num + ml_pred.confidence * strength.conf_den,
     conf_den |-> 200 * strength.conf_den]

\* lines 133-160: the levels of the signal
Levels(c, symbol, side, price, atr, strength, ml_pred) ==
    IF side = "LONG"
    THEN [symbol |-> symbol, side |-> side,
          entry_a |-> price,
          entry_b |-> IF c.ENABLE_AVERAGING
                      THEN (price * (100 - AVERAGING_DISTANCE)) \div 100 ELSE 0,
          stop |-> price - Dist(atr, ATR_MULTIPLIER_SL),
          tp1 |-> price + Dist(atr, ATR_MULTIPLIER_TP1),
          tp2 |-> price + Dist(atr, ATR_MULTIPLIER_TP2),
          tp3 |-> price + Dist(atr, ATR_MULTIPLIER_TP3),
          conf_num |-> CombinedConfNum(strength, ml_pred),
          conf_den |-> CombinedConfDen(strength)]
    ELSE [symbol |-> symbol, side |-> side,
          entry_a |-> price,
          entry_b |-> IF c.ENABLE_AVERAGING
                      THEN (price * (100 + AVERAGING_DISTANCE)) \div 100 ELSE 0,
          stop |-> price + Dist(atr, ATR_MULTIPLIER_SL),
          tp1 |-> price - Dist(atr, ATR_MULTIPLIER_TP1),
          tp2 |-> price - Dist(atr, ATR_MULTIPLIER_TP2),
          tp3 |-> price - Dist(atr, ATR_MULTIPLIER_TP3),
          conf_num |-> CombinedConfNum(strength, ml_pred),
          conf_den |-> CombinedConfDen(strength)]

\* generate without its try / except Exception
generate_unguarded(c, in) ==
    LET strength == SignalStrength(in.bull, in.bear)
        ml_pred == Predict(in.proba)
    IN  IF in.raises THEN Raised
        ELSE IF in.rows < 10 THEN NoSignal
        ELSE IF LowConfidence(c, strength, ml_pred) THEN NoSignal
        ELSE IF WeakTrend(in.adx) THEN NoSignal
        ELSE IF Disagree(ml_pred.direction, strength.net_score) THEN NoSignal
        ELSE Levels(c, in.symbol, SideOf(ml_pred.direction), in.price, in.atr,
                    strength, ml_pred)

\* generate(df, symbol): in.rows = len(df) after add_all_indicators,
\* in.bull / in.bear the scorer tallies, in.proba the classifier outcome,
\* in.adx, in.price, in.atr the last row; in.raises = an exception inside
generate(c, in) ==
    LET strength == SignalStrength(in.bull, in.bear)
        ml_pred == Predict(in.proba)
    IN  IF in.raises THEN NoSignal
        ELSE IF in.rows < 10 THEN NoSignal
        ELSE IF LowConfidence(c, strength, ml_pred) THEN NoSignal
        ELSE IF WeakTrend(in.adx) THEN NoSignal
        ELSE IF Disagree(ml_pred.direction, strength.net_score) THEN NoSignal
        ELSE Levels(c, in.symbol, SideOf(ml_pred.direction), in.price, in.atr,
                    strength, ml_pred)

----------------------------------------------------------------------------
(* database.py *)

NullPnl == <<0, 0>>

\* open_trade that does not store the averaging entry
open_trade_drops_entry_b(t, sig) ==
    Append(t, [symbol |-> sig.symbol, side |-> sig.side, entry_a |-> sig.entry_a,
               entry_b |-> 0, stop |-> sig.stop, tp1 |-> sig.tp1,
               tp2 |-> sig.tp2, tp3 |-> sig.tp3, status |-> "OPEN",
               pnl |-> NullPnl, tp1_hit |-> FALSE, tp2_hit |-> FALSE,
               tp3_hit |-> FALSE, closed_at |-> "NULL"])

\* open_trade that writes over the newest row instead of adding one
open_trade_replacing(t, sig) ==
    LET row == [symbol |-> sig.symbol, side |-> sig.side, entry_a |-> sig.entry_a,
                entry_b |-> sig.entry_b, stop |-> sig.stop, tp1 |-> sig.tp1,
                tp2 |-> sig.tp2, tp3 |-> sig.tp3, status |-> "OPEN",
                pnl |-> NullPnl, tp1_hit |-> FALSE, tp2_hit |-> FALSE,
                tp3_hit |-> FALSE, closed_at |-> "NULL"]
    IN  IF t = <<>> THEN <<row>> ELSE [t EXCEPT ![Len(t)] = row]

\* open_trade: INSERT ... VALUES (..., 'OPEN'), the other columns at their defaults
open_trade(t, sig) ==
    Append(t, [symbol |-> sig.symbol, side |-> sig.side, entry_a |-> sig.entry_a,
               entry_b |-> sig.entry_b, stop |-> sig.stop, tp1 |-> sig.tp1,
               tp2 |-> sig.tp2, tp3 |-> sig.tp3, status |-> "OPEN",
               pnl |-> NullPnl, tp1_hit |-> FALSE, tp2_hit |-> FALSE,
               tp3_hit |-> FALSE, closed_at |-> "NULL"])

\* close_trade that stores no pnl
close_trade_without_pnl(t, trade_id, pnl) ==
    [t EXCEPT ![trade_id].status = "CLOSED", ![trade_id].closed_at = "TIMESTAMP"]

\* close_trade that leaves the status column alone
close_trade_keeps_status(t, trade_id, pnl) ==
    [t EXCEPT ![trade_id].pnl = pnl, ![trade_id].closed_at = "TIMESTAMP"]

\* close_trade: UPDATE trades SET status='CLOSED', pnl=?, closed_at=CURRENT_TIMESTAMP
close_trade(t, trade_id, pnl) ==
    [t EXCEPT ![trade_id].status = "CLOSED", ![trade_id].pnl = pnl,
              ![trade_id].closed_at = "TIMESTAMP"]

\* mark_tp_hit whose UPDATE is not committed
mark_tp_hit_lost(t, trade_id, tp_level) == t

\* mark_tp_hit that sets tp1_hit whatever the level
mark_tp_hit_level_one(t, trade_id, tp_level) ==
    [t EXCEPT ![trade_id].tp1_hit = TRUE]

\* mark_tp_hit that clears the flags of the lower levels
mark_tp_hit_resets(t, trade_id, tp_level) ==
    IF tp_level = 1 THEN [t EXCEPT ![trade_id].tp1_hit = TRUE]
    ELSE IF tp_level = 2
    THEN [t EXCEPT ![trade_id].tp2_hit = TRUE, ![trade_id].tp1_hit = FALSE]
    ELSE [t EXCEPT ![trade_id].tp3_hit = TRUE, ![trade_id].tp1_hit = FALSE,
                   ![trade_id].tp2_hit = FALSE]

\* mark_tp_hit that closes the row as well
mark_tp_hit_closes(t, trade_id, tp_level) ==
    IF tp_level = 1
    THEN [t EXCEPT ![trade_id].tp1_hit = TRUE, ![trade_id].status = "CLOSED"]
    ELSE IF tp_level = 2
    THEN [t EXCEPT ![trade_id].tp2_hit = TRUE, ![trade_id].status = "CLOSED"]
    ELSE [t EXCEPT ![trade_id].tp3_hit = TRUE, ![trade_id].status = "CLOSED"]

\* mark_tp_hit: UPDATE trades SET tp<level>_hit = 1
mark_tp_hit(t, trade_id, tp_level) ==
    IF tp_level = 1 THEN [t EXCEPT ![trade_id].tp1_hit = TRUE]
    ELSE IF tp_level = 2 THEN [t EXCEPT ![trade_id].tp2_hit = TRUE]
    ELSE IF tp_level = 3 THEN [t EXCEPT ![trade_id].tp3_hit = TRUE]
    ELSE t

\* the ids of the OPEN rows among the first n, in id order
RECURSIVE OpenIdsUpTo(_, _)
OpenIdsUpTo(t, n) ==
    IF n = 0 THEN <<>>
    ELSE IF t[n].status = "OPEN" THEN Append(OpenIdsUpTo(t, n - 1), n)
    ELSE OpenIdsUpTo(t, n - 1)

\* get_open_trades with fetchone in place of fetchall
get_first_open_trade(t) ==
    LET open == OpenIdsUpTo(t, Len(t))
    IN  IF open = <<>> THEN <<>> ELSE <<open[1]>>

\* get_open_trades without the WHERE clause
get_all_trades(t) == [i \in 1..Len(t) |-> i]

\* get_open_trades: SELECT * FROM trades WHERE status = 'OPEN'
get_open_trades(t) == OpenIdsUpTo(t, Len(t))

\* is_tp_hit that never finds the flag set
is_tp_hit_never(t, trade_id, tp_level) == FALSE

\* is_tp_hit: SELECT tp<level>_hit FROM trades WHERE id = ?
is_tp_hit(t, trade_id, tp_level) ==
    IF tp_level = 1 THEN t[trade_id].tp1_hit
    ELSE IF tp_level = 2 THEN t[trade_id].tp2_hit
    ELSE IF tp_level = 3 THEN t[trade_id].tp3_hit
    ELSE FALSE

----------------------------------------------------------------------------
(* signal_tracker.py *)

\* the weighted entry without the averaging entry
calculate_weighted_entry_a_only(entry_a, entry_b) == 10 * entry_a

\* the two entries added up with a full weight each
calculate_weighted_entry_sum(entry_a, entry_b) ==
    IF entry_b = 0 THEN 10 * entry_a
    ELSE entry_a * 10 + entry_b * 10

\* _calculate_weighted_entry, times 10 (the weights are kept in tenths)
calculate_weighted_entry(entry_a, entry_b) ==
    IF entry_b = 0 THEN 10 * entry_a
    ELSE entry_a * cfg.POSITION_SIZE_A + entry_b * cfg.POSITION_SIZE_B

\* _calculate_pnl with the LONG formula for both sides
calculate_pnl_long_only(entry_avg10, exit_price, is_long) ==
    <<(10 * exit_price - entry_avg10) * 100, entry_avg10>>

\* _calculate_pnl: the percentage as the fraction <<num, den>>
calculate_pnl(entry_avg10, exit_price, is_long) ==
    IF is_long
    THEN <<(10 * exit_price - entry_avg10) * 100, entry_avg10>>
    ELSE <<(entry_avg10 - 10 * exit_price) * 100, entry_avg10>>

IsLong(signal) == signal.side = "LONG"

\* stop_hit that tests every position like a LONG
stop_hit_long_only(signal, current_price) == current_price <= signal.stop

\* stop_hit = (is_long and price <= stop) or (not is_long and price >= stop)
stop_hit(signal, current_price) ==
    \/ (IsLong(signal) /\ current_price <= signal.stop)
    \/ (~IsLong(signal) /\ current_price >= signal.stop)

\* the TP blocks reading the levels in the opposite order
TpLevelReversed(signal, k) ==
    IF k = 1 THEN signal.tp3 ELSE IF k = 2 THEN signal.tp2 ELSE signal.tp1

\* signal['tp1'], signal['tp2'], signal['tp3']
TpLevel(signal, k) ==
    IF k = 1 THEN signal.tp1 ELSE IF k = 2 THEN signal.tp2 ELSE signal.tp3

\* tpk_hit = (is_long and price >= tpk) or (not is_long and price <= tpk)
tp_reached(signal, k, current_price) ==
    \/ (IsLong(signal) /\ current_price >= TpLevel(signal, k))
    \/ (~IsLong(signal) /\ current_price <= TpLevel(signal, k))

\* the TP2 block labelled like the TP1 block
TpTypeCopied(k) == IF k = 3 THEN "TP3_FULL" ELSE "TP1"

\* 'type' of the result of the TPk block
TpType(k) == IF k = 1 THEN "TP1" ELSE IF k = 2 THEN "TP2" ELSE "TP3_FULL"

\* the result dict of an event
Event(type, id, hit_price, pnl) ==
    [type |-> type, id |-> id, hit_price |-> hit_price, pnl |-> pnl]

\* the stop-loss block with the observed price as the exit
StopExitObserved(signal, current_price) == current_price

\* the exit the stop-loss block hands to _calculate_pnl: stop
StopExit(signal, current_price) == signal.stop

PnlAt(signal, exit_price) ==
    calculate_pnl(calculate_weighted_entry(signal.entry_a, signal.entry_b),
                  exit_price, IsLong(signal))

\* prices a ticker can report; 0 is what get_current_price returns on failure
Prices == {93, 94, 100, 105, 107}
Quotes == Prices \cup {0}

RECURSIVE SymbolsOf(_, _)
SymbolsOf(t, ids) ==
    IF ids = <<>> THEN {} ELSE {t[Head(ids)].symbol} \cup SymbolsOf(t, Tail(ids))

\* _update_prices: a key is written only when the fetched price is > 0
update_prices(cache, symbols, quote) ==
    [s \in Symbols |-> IF s \in symbols /\ quote[s] > 0 THEN quote[s] ELSE cache[s]]

CurId == active_signals[idx]
\* every position of the batch checked with the record of the first one
CurSignalOfFirst == trades[active_signals[1]]

CurSignal == trades[CurId]
CurPrice == price_cache[CurSignal.symbol]

\* notifier.send_signal_result(result): the call is recorded; TelegramBot.send
\* logs a failed send_message and returns
Notify(ev) ==
    /\ notified' = Append(notified, ev)
    /\ \E ok \in BOOLEAN : delivered' = Append(delivered, ok)
    /\ sent_count' = [sent_count EXCEPT ![<<ev.id, ev.type>>] = @ + 1]
    /\ pnl_log' = [pnl_log EXCEPT ![<<ev.id, ev.type>>] = ev.pnl]

\* the exception classes raised inside a cycle: those of the store
StoreError == "sqlite3.Error"
ExceptionClasses == {StoreError}

\* Engine.check_signals without its except clause
check_signals_except_nothing(e) == FALSE

\* Engine.check_signals: except Exception as e (logged, not re-raised)
check_signals_except(e) == e \in ExceptionClasses

\* Engine.run: except Exception as e (logged, not re-raised)
run_except(e) == e \in ExceptionClasses

\* exception e leaves check_all_signals and reaches Engine.check_signals; one
\* that is not caught there reaches the scheduler, which logs it
Raise(e) ==
    propagated' = IF check_signals_except(e) THEN propagated
                  ELSE propagated \cup {"signal_check"}

\* the store raises inside _check_signal: the coroutine is left
Abort ==
    /\ pc' = "idle"
    /\ active_signals' = <<>>
    /\ loaded' = <<>>
    /\ idx' = 0
    /\ results' = <<>>
    /\ tp_results' = <<>>
    /\ fetched' = {}
    /\ notified' = <<>>
    /\ delivered' = <<>>
    /\ Raise(StoreError)

\* _check_signal returns r (a sequence of at most one result) to the loop
ReturnToLoop(r) ==
    /\ results' = results \o r
    /\ tp_results' = <<>>
    /\ IF idx < Len(active_signals)
       THEN idx' = idx + 1 /\ pc' = "stop"
       ELSE idx' = idx /\ pc' = "return"

\* history of consecutive cycles, kept only where it is switched on: a cycle
\* that begins at the price cache `cache` is a "repeat" if the cycle before it
\* returned without a failure and saw the same cache, with no scan since
CycleBegins(cache) ==
    IF watch = "off" THEN "off"
    ELSE IF watch = "clean" /\ cache = price_cache THEN "repeat"
    ELSE "first"

\* a cycle returns: it was clean if it began, no scan ran and every
\* notification of it was delivered
CycleReturns ==
    IF watch = "off" THEN "off"
    ELSE IF watch \in {"first", "repeat"} /\ (\A n \in 1..Len(delivered) : delivered[n])
    THEN "clean"
    ELSE "unknown"

\* a scan iteration runs
ScanRuns == IF watch = "off" THEN "off" ELSE "scanned"

\* check_all_signals: get_open_trades raises
CheckLoadFails ==
    /\ busy = "none"
    /\ pc = "idle"
    /\ Raise(StoreError)
    /\ UNCHANGED <<cfg, trades, scanVars, genVars, trackerVars, watch>>

\* check_all_signals: no open trade, return []
CheckNothingOpen ==
    /\ busy = "none"
    /\ pc = "idle"
    /\ get_open_trades(trades) = <<>>
    /\ pc' = "return"
    /\ results' = <<>>
    /\ watch' = CycleBegins(price_cache)
    /\ UNCHANGED <<cfg, trades, scanVars, genVars, price_cache, active_signals, loaded, idx,
                   tp_results, fetched, notified, delivered, sent_count, pnl_log, close_count, propagated>>

\* check_all_signals: load the open trades and update the price cache
CheckBegin ==
    /\ busy = "none"
    /\ pc = "idle"
    /\ get_open_trades(trades) # <<>>
    /\ \E quote \in [Symbols -> Quotes] :
         LET open == get_open_trades(trades)
             symbols == SymbolsOf(trades, open)
         IN  /\ \A s \in Symbols \ symbols : quote[s] = 0
             /\ active_signals' = open
             /\ loaded' = [n \in 1..Len(open) |-> trades[open[n]]]
             /\ price_cache' = update_prices(price_cache, symbols, quote)
             /\ fetched' = {s \in symbols : quote[s] > 0}
    /\ idx' = 1
    /\ pc' = "stop"
    /\ results' = <<>>
    /\ tp_results' = <<>>
    /\ notified' = <<>>
    /\ delivered' = <<>>
    /\ watch' = CycleBegins(price_cache')
    /\ UNCHANGED <<cfg, trades, scanVars, genVars, sent_count, pnl_log, close_count,
                   propagated>>

\* _check_signal, lines 131-169: price lookup and stop-loss check
StopStage ==
    /\ busy = "none"
    /\ pc = "stop"
    /\ IF CurPrice = 0
       THEN /\ ReturnToLoop(<<>>)
            /\ UNCHANGED <<trades, active_signals, loaded, fetched, notified, delivered, sent_count, pnl_log,
                           close_count, propagated>>
       ELSE IF stop_hit(CurSignal, CurPrice)
       THEN \E db_ok \in BOOLEAN :
              IF db_ok
              THEN LET pnl == PnlAt(CurSignal, StopExit(CurSignal, CurPrice))
                       ev == Event("STOP_LOSS", CurId, CurPrice, pnl)
                   IN  /\ trades' = close_trade(trades, CurId, pnl)
                       /\ close_count' = [close_count EXCEPT ![CurId] = @ + 1]
                       /\ Notify(ev)
                       /\ ReturnToLoop(<<ev>>)
                       /\ UNCHANGED <<active_signals, loaded, fetched, propagated>>
              ELSE Abort /\ UNCHANGED <<trades, sent_count, pnl_log, close_count>>
       ELSE /\ pc' = "tp1"
            /\ tp_results' = <<>>
            /\ UNCHANGED <<trades, active_signals, loaded, idx, results, fetched, notified, delivered,
                           sent_count, pnl_log, close_count, propagated>>
    /\ UNCHANGED <<cfg, scanVars, genVars, price_cache, watch>>

\* _check_signal, lines 174-204: TP1 / TP2, notification only
TpStage(k, next_pc) ==
    /\ IF tp_reached(CurSignal, k, CurPrice)
       THEN \E db \in {"ok", "read_raises", "write_raises"} :
              IF db = "read_raises"
              THEN Abort /\ UNCHANGED <<trades, sent_count, pnl_log>>
              ELSE IF is_tp_hit(trades, CurId, k)
              THEN /\ db = "ok"
                   /\ pc' = next_pc
                   /\ UNCHANGED <<trades, active_signals, loaded, idx, results, tp_results,
                                  fetched, notified, delivered, sent_count, pnl_log, propagated>>
              ELSE IF db = "write_raises"
              THEN Abort /\ UNCHANGED <<trades, sent_count, pnl_log>>
              ELSE LET ev == Event(TpType(k), CurId, CurPrice,
                                   PnlAt(CurSignal, TpLevel(CurSignal, k)))
                   IN  /\ trades' = mark_tp_hit(trades, CurId, k)
                       /\ tp_results' = Append(tp_results, ev)
                       /\ Notify(ev)
                       /\ pc' = next_pc
                       /\ UNCHANGED <<active_signals, loaded, idx, results, fetched, propagated>>
       ELSE /\ pc' = next_pc
            /\ UNCHANGED <<trades, active_signals, loaded, idx, results, tp_results,
                           fetched, notified, delivered, sent_count, pnl_log, propagated>>
    /\ UNCHANGED <<cfg, scanVars, genVars, price_cache, close_count, watch>>

Tp1Stage == busy = "none" /\ pc = "tp1" /\ TpStage(1, "tp2")

Tp2Stage == busy = "none" /\ pc = "tp2" /\ TpStage(2, "tp3")

FirstOf(s) == IF s = <<>> THEN <<>> ELSE <<s[1]>>

\* _check_signal, lines 206-224: TP3 closes the trade; return tp_results[0]
Tp3Stage ==
    /\ busy = "none"
    /\ pc = "tp3"
    /\ IF tp_reached(CurSignal, 3, CurPrice)
       THEN \E db \in {"ok", "read_raises", "mark_raises", "close_raises"} :
              IF db = "read_raises"
              THEN Abort /\ UNCHANGED <<trades, sent_count, pnl_log, close_count>>
              ELSE IF is_tp_hit(trades, CurId, 3)
              THEN /\ db = "ok"
                   /\ ReturnToLoop(FirstOf(tp_results))
                   /\ UNCHANGED <<trades, active_signals, loaded, fetched, notified, delivered,
                                  sent_count, pnl_log, close_count, propagated>>
              ELSE IF db = "mark_raises"
              THEN Abort /\ UNCHANGED <<trades, sent_count, pnl_log, close_count>>
              ELSE IF db = "close_raises"
              THEN /\ trades' = mark_tp_hit(trades, CurId, 3)
                   /\ Abort
                   /\ UNCHANGED <<sent_count, pnl_log, close_count>>
              ELSE LET pnl == PnlAt(CurSignal, CurSignal.tp3)
                       ev == Event("TP3_FULL", CurId, CurPrice, pnl)
                   IN  /\ trades' = close_trade(mark_tp_hit(trades, CurId, 3),
                                                CurId, pnl)
                       /\ close_count' = [close_count EXCEPT ![CurId] = @ + 1]
                       /\ Notify(ev)
                       /\ ReturnToLoop(FirstOf(Append(tp_results, ev)))
                       /\ UNCHANGED <<active_signals, loaded, fetched, propagated>>
       ELSE /\ ReturnToLoop(FirstOf(tp_results))
            /\ UNCHANGED <<trades, active_signals, loaded, fetched, notified, delivered, sent_count, pnl_log,
                           close_count, propagated>>
    /\ UNCHANGED <<cfg, scanVars, genVars, price_cache, watch>>

\* check_all_signals returns results; Engine.check_signals logs their number
CheckReturn ==
    /\ busy = "none"
    /\ pc = "return"
    /\ pc' = "idle"
    /\ active_signals' = <<>>
    /\ loaded' = <<>>
    /\ idx' = 0
    /\ results' = <<>>
    /\ tp_results' = <<>>
    /\ fetched' = {}
    /\ notified' = <<>>
    /\ delivered' = <<>>
    /\ watch' = CycleReturns
    /\ UNCHANGED <<cfg, trades, scanVars, genVars, price_cache, sent_count, pnl_log,
                   close_count, propagated>>

----------------------------------------------------------------------------
(* main.py: Engine.run *)

Failed == [ok |-> FALSE, long |-> 0, short |-> 0]
Proba(p) == [ok |-> TRUE, long |-> p, short |-> 100 - p]

\* the frames a scan hands to generate
ScanInputs(symbol) ==
    [symbol : {symbol}, rows : {60}, bull : {0, 3}, bear : {0, 3},
     proba : {Failed, Proba(30), Proba(70)}, adx : {25}, price : {100},
     atr : {2}, raises : {FALSE}]

\* the symbols fetch_all_coins_data returned data for, in its order
Universes == {<<>>, SymbolOrder}

\* who starts Engine.run: the market_scan job of the scheduler, the /force
\* command handler
Runners == {"scheduled", "force"}

\* Engine.run returns (normally or through its except clause)
RunEnd(r) ==
    /\ run_pc' = [run_pc EXCEPT ![r] = "idle"]
    /\ all_data' = [all_data EXCEPT ![r] = <<>>]
    /\ sent' = [sent EXCEPT ![r] = 0]

\* Engine.run is entered by runner r (the scheduler does not start a job
\* that is still running, the command handlers run one at a time) and awaits
\* fetch_all_coins_data in the executor; all_data is what the await returns
RunStart(r) ==
    /\ busy = "none"
    /\ run_pc[r] = "idle"
    /\ \E u \in Universes : all_data' = [all_data EXCEPT ![r] = u]
    /\ sent' = [sent EXCEPT ![r] = 0]
    /\ run_pc' = [run_pc EXCEPT ![r] = "loop"]
    /\ UNCHANGED <<cfg, trades, trackerVars, genVars, propagated, watch, busy>>

\* Engine.run, lines 118-135: the body of the loop for the next symbol
Iterate(r) ==
    /\ \E in \in ScanInputs(Head(all_data[r])), db_ok \in BOOLEAN :
         LET sig == generate(cfg, in)
         IN  IF sig = NoSignal
             THEN /\ db_ok
                  /\ UNCHANGED <<trades, propagated>>
                  /\ IF sent[r] >= cfg.MAX_SIGNALS_PER_RUN
                     THEN RunEnd(r)
                     ELSE /\ all_data' = [all_data EXCEPT ![r] = Tail(@)]
                          /\ UNCHANGED <<run_pc, sent>>
             ELSE /\ Len(trades) < MaxTrades
                  /\ IF db_ok
                     THEN /\ trades' = open_trade(trades, sig)
                          /\ UNCHANGED propagated
                          /\ IF sent[r] + 1 >= cfg.MAX_SIGNALS_PER_RUN
                             THEN RunEnd(r)
                             ELSE /\ all_data' = [all_data EXCEPT ![r] = Tail(@)]
                                  /\ sent' = [sent EXCEPT ![r] = @ + 1]
                                  /\ UNCHANGED run_pc
                     ELSE /\ RunEnd(r)
                          /\ propagated' = IF run_except(StoreError) THEN propagated
                                            ELSE propagated \cup {"market_scan"}
                          /\ UNCHANGED trades
    /\ watch' = ScanRuns
    /\ UNCHANGED <<cfg, trackerVars, genVars>>

\* RunStart in two steps: Engine.run is entered and hands
\* fetch_all_coins_data to the executor (run_in_executor, lines 114-116);
\* the event-loop thread is free while the await is pending
RunFetchBegin(r) ==
    /\ busy = "none"
    /\ run_pc[r] = "idle"
    /\ sent' = [sent EXCEPT ![r] = 0]
    /\ run_pc' = [run_pc EXCEPT ![r] = "fetch"]
    /\ UNCHANGED <<cfg, trades, trackerVars, genVars, propagated, watch, busy, all_data>>

\* the await returns all_data
RunFetchEnd(r) ==
    /\ busy = "none"
    /\ run_pc[r] = "fetch"
    /\ \E u \in Universes : all_data' = [all_data EXCEPT ![r] = u]
    /\ run_pc' = [run_pc EXCEPT ![r] = "loop"]
    /\ UNCHANGED <<cfg, trades, trackerVars, genVars, propagated, watch, busy, sent>>

\* Engine.run: one iteration of the loop over all_data, taken as one step
RunIterate(r) ==
    /\ busy = "none"
    /\ run_pc[r] = "loop"
    /\ all_data[r] # <<>>
    /\ Iterate(r)
    /\ UNCHANGED busy

\* the same iteration in two steps.  Line 119 calls generate directly, not
\* through run_in_executor: indicator computation, the lazy fit and the
\* prediction run on the event-loop thread, which runs no other coroutine
\* until the call has returned
RunGenerateBegin(r) ==
    /\ busy = "none"
    /\ run_pc[r] = "loop"
    /\ all_data[r] # <<>>
    /\ busy' = r
    /\ UNCHANGED <<cfg, trades, trackerVars, genVars, propagated, watch, run_pc, all_data, sent>>

RunGenerateEnd(r) ==
    /\ busy = r
    /\ Iterate(r)
    /\ busy' = "none"

\* Engine.run: the loop is exhausted
RunFinish(r) ==
    /\ run_pc[r] = "loop"
    /\ busy = "none"
    /\ all_data[r] = <<>>
    /\ RunEnd(r)
    /\ UNCHANGED <<cfg, trades, trackerVars, genVars, propagated, watch, busy>>

----------------------------------------------------------------------------
(* The engine: Engine.__init__ on a fresh database, then scans and checks *)

NoInput ==
    [symbol |-> "", rows |-> 0, bull |-> 0, bear |-> 0, proba |-> Failed,
     adx |-> 0, price |-> 0, atr |-> 0, raises |-> FALSE]

TrackerIdle ==
    /\ price_cache = [s \in Symbols |-> 0]
    /\ pc = "idle"
    /\ active_signals = <<>>
    /\ loaded = <<>>
    /\ idx = 0
    /\ results = <<>>
    /\ tp_results = <<>>
    /\ fetched = {}
    /\ notified = <<>>
    /\ delivered = <<>>
    /\ sent_count = [k \in (1..MaxTrades) \X EventTypes |-> 0]
    /\ pnl_log = [k \in (1..MaxTrades) \X EventTypes |-> NullPnl]
    /\ close_count = [i \in 1..MaxTrades |-> 0]
    /\ run_pc = [r \in Runners |-> "idle"]
    /\ all_data = [r \in Runners |-> <<>>]
    /\ sent = [r \in Runners |-> 0]
    /\ busy = "none"
    /\ propagated = {}

TrackerInit ==
    /\ trades = <<>>
    /\ TrackerIdle

Init ==
    /\ cfg = DefaultConfig
    /\ watch = "off"
    /\ TrackerInit
    /\ gen_in = NoInput
    /\ gen_out = NoSignal
    /\ AnalysisIdle

Next ==
    \/ CheckLoadFails
    \/ CheckNothingOpen
    \/ CheckBegin
    \/ StopStage
    \/ Tp1Stage
    \/ Tp2Stage
    \/ Tp3Stage
    \/ CheckReturn
    \/ RunStart("scheduled")
    \/ RunIterate("scheduled")
    \/ RunFinish("scheduled")

\* the engine driven by its two scheduler jobs
Spec == Init /\ [][Next]_vars

\* the engine with the /force command handler as well
ForceNext ==
    \/ Next
    \/ RunStart("force")
    \/ RunIterate("force")
    \/ RunFinish("force")

ForceSpec == Init /\ [][ForceNext]_vars

\* the engine with the threads of the scan made visible: the fetch in the
\* executor, generate on the event-loop thread
ThreadNext ==
    \/ CheckLoadFails
    \/ CheckNothingOpen
    \/ CheckBegin
    \/ StopStage
    \/ Tp1Stage
    \/ Tp2Stage
    \/ Tp3Stage
    \/ CheckReturn
    \/ RunFetchBegin("scheduled")
    \/ RunFetchEnd("scheduled")
    \/ RunGenerateBegin("scheduled")
    \/ RunGenerateEnd("scheduled")
    \/ RunFinish("scheduled")

ThreadSpec == Init /\ [][ThreadNext]_vars

----------------------------------------------------------------------------
(* generate as a function of its inputs *)

Probas == {Failed} \cup {Proba(p) : p \in {0, 30, 50, 70, 100}}

GenInputs ==
    [symbol : {"BTC"}, rows : {5, 60}, bull : 0..MaxScore, bear : 0..MaxScore,
     proba : Probas, adx : {15, 20, 25}, price : {100, 150}, atr : {2, 4},
     raises : BOOLEAN]

\* gen_out before the call has returned
Pending ==
    [symbol |-> "", side |-> "PENDING", entry_a |-> 0, entry_b |-> 0, stop |-> 0,
     tp1 |-> 0, tp2 |-> 0, tp3 |-> 0, conf_num |-> 0, conf_den |-> 1]

GenInit ==
    /\ cfg \in GenConfigs
    /\ watch = "off"
    /\ TrackerInit
    /\ gen_in \in GenInputs
    /\ gen_out = Pending
    /\ AnalysisIdle

\* sig = self.signal_gen.generate(df, symbol)
Generate ==
    /\ gen_out = Pending
    /\ gen_out' = generate(cfg, gen_in)
    /\ UNCHANGED <<cfg, trades, trackerVars, scanVars, gen_in, predVars, propagated, watch>>

GenNext == Generate

GenSpec == GenInit /\ [][GenNext]_vars

----------------------------------------------------------------------------
(* The scorer and the predictor as units *)

ScorerFrames ==
    {f \in [rsi : {20, 40, 50, 60, 80}, macd : {-1, 0, 1}, macd_signal : {0},
            prev_macd : {-1, 0, 1}, prev_macd_signal : {0}, close : {100},
            open : {99, 101}, sma_20 : {98, 102}, sma_50 : {96, 104},
            bb_lower : {90, 101}, bb_upper : {99, 110}, stoch_k : {10, 50, 90},
            stoch_d : {5, 95}, volume_ratio : {10, 20}] :
        f.bb_lower <= f.bb_upper}

PredFrames ==
    [features : BOOLEAN, rows : {MinTrainRows - 1, MinTrainRows}, last_nan : BOOLEAN,
     accuracy : {0, 60}, predict_proba : {"raises", "one_class", "two_classes"},
     proba : {Proba(p) : p \in {0, 30, 50, 70, 100}}]

\* a behaviour exercises one unit: the scorer on one frame, or the predictor
\* (constructed with or without a saved model) on a sequence of frames
AnalysisInit ==
    /\ cfg = DefaultConfig
    /\ watch = "off"
    /\ TrackerInit
    /\ gen_in = NoInput
    /\ gen_out = NoSignal
    /\ ta_out = PendingStrength
    /\ pred_in = NoFrame
    /\ pred_out = FailSoft
    /\ fit_passes = 0
    /\ \/ ta_in \in ScorerFrames /\ trained = FALSE
       \/ ta_in = NoRows /\ trained \in BOOLEAN

\* strength = self.ta.get_signal_strength(df)
Score ==
    /\ ta_in # NoRows
    /\ ta_out = PendingStrength
    /\ ta_out' = get_signal_strength(ta_in)
    /\ UNCHANGED <<cfg, trades, trackerVars, scanVars, gen_in, gen_out, ta_in, trained,
                   pred_in, pred_out, fit_passes, propagated, watch>>

\* ml_pred = self.ml.predict(df)
PredictCall ==
    /\ ta_in = NoRows
    /\ \E f \in PredFrames :
         LET r == predict(trained, f)
         IN  /\ pred_in' = f
             /\ pred_out' = r.result
             /\ trained' = r.trained
             /\ fit_passes' = fit_passes + r.fits
    /\ UNCHANGED <<cfg, trades, trackerVars, scanVars, gen_in, gen_out, ta_in, ta_out,
                   propagated, watch>>

AnalysisNext ==
    \/ Score
    \/ PredictCall

AnalysisSpec == AnalysisInit /\ [][AnalysisNext]_vars

----------------------------------------------------------------------------
(* The tracker on a table that already holds positions *)

\* a Signal as open_trade receives it
Position(side, entry_a, entry_b, stop, tp1, tp2, tp3) ==
    [symbol |-> "BTC", side |-> side, entry_a |-> entry_a, entry_b |-> entry_b,
     stop |-> stop, tp1 |-> tp1, tp2 |-> tp2, tp3 |-> tp3,
     conf_num |-> 1, conf_den |-> 1]

\* the position of scenarios A and B of the specification
ScenarioPosition == Position("LONG", 100, 98, 95, 105, 110, 120)

\* positions a table can hold (it outlives restarts and configurations):
\* with and without averaging entry, both sides, the stop on either side of
\* the weighted entry, the targets in and out of order
TrackedPositions ==
    {ScenarioPosition,
     Position("LONG", 100, 0, 94, 104, 105, 107),
     Position("SHORT", 100, 102, 105, 95, 94, 93),
     Position("SHORT", 100, 0, 105, 94, 93, 90),
     Position("LONG", 200, 196, 199, 205, 210, 220),
     Position("SHORT", 100, 104, 101, 94, 93, 90),
     Position("LONG", 100, 90, 97, 105, 107, 110),
     Position("LONG", 100, 0, 94, 107, 105, 104)}

TrackedTables ==
    {open_trade(<<>>, p) : p \in TrackedPositions}
    \cup {open_trade(open_trade(<<>>, p), ScenarioPosition) : p \in TrackedPositions}

TrackInit ==
    /\ cfg = DefaultConfig
    /\ watch = "off"
    /\ trades \in TrackedTables
    /\ TrackerIdle
    /\ gen_in = NoInput
    /\ gen_out = NoSignal
    /\ AnalysisIdle

TrackNext ==
    \/ CheckLoadFails
    \/ CheckNothingOpen
    \/ CheckBegin
    \/ StopStage
    \/ Tp1Stage
    \/ Tp2Stage
    \/ Tp3Stage
    \/ CheckReturn

TrackSpec == TrackInit /\ [][TrackNext]_vars

\* the tracker on one position, with the signal_check job recurring: the
\* interval job starts a cycle again and again, a started coroutine runs
\* on, and a store call that is attempted again and again succeeds again
\* and again
LiveInit ==
    /\ cfg = DefaultConfig
    /\ watch = "off"
    /\ trades \in {open_trade(<<>>, p) : p \in TrackedPositions}
    /\ TrackerIdle
    /\ gen_in = NoInput
    /\ gen_out = NoSignal
    /\ AnalysisIdle

Fairness ==
    /\ WF_vars(CheckNothingOpen)
    /\ WF_vars(CheckBegin)
    /\ WF_vars(StopStage)
    /\ WF_vars(Tp1Stage)
    /\ WF_vars(Tp2Stage)
    /\ WF_vars(Tp3Stage)
    /\ WF_vars(CheckReturn)
    /\ SF_vars(StopStage /\ pc' # "idle")
    /\ SF_vars(Tp1Stage /\ pc' # "idle")
    /\ SF_vars(Tp2Stage /\ pc' # "idle")
    /\ SF_vars(Tp3Stage /\ pc' # "idle")

LiveSpec == LiveInit /\ [][TrackNext]_vars /\ Fairness

\* the tracker with the history of consecutive cycles switched on
RepeatInit ==
    /\ cfg = DefaultConfig
    /\ watch = "unknown"
    /\ trades \in TrackedTables
    /\ TrackerIdle
    /\ gen_in = NoInput
    /\ gen_out = NoSignal
    /\ AnalysisIdle

RepeatSpec == RepeatInit /\ [][TrackNext]_vars

\* the engine under each limit of signals per scan
ScanConfigs ==
    [MIN_CONFIDENCE : {60}, MAX_SIGNALS_PER_RUN : {0, 1, 2}, ENABLE_AVERAGING : {TRUE},
     POSITION_SIZE_A : {POSITION_SIZE_A}, POSITION_SIZE_B : {POSITION_SIZE_B}]

ScanInit ==
    /\ cfg \in ScanConfigs
    /\ watch = "off"
    /\ TrackerInit
    /\ gen_in = NoInput
    /\ gen_out = NoSignal
    /\ AnalysisIdle

ScanSpec == ScanInit /\ [][Next]_vars

\* the tracker under each pair of weights (in tenths) that sums to 1
WeightConfigs ==
    {c \in [MIN_CONFIDENCE : {60}, MAX_SIGNALS_PER_RUN : {2}, ENABLE_AVERAGING : {TRUE},
            POSITION_SIZE_A : {0, 3, 5, 7, 10}, POSITION_SIZE_B : {0, 3, 5, 7, 10}] :
        c.POSITION_SIZE_A + c.POSITION_SIZE_B = 10}

WeightInit ==
    /\ cfg \in WeightConfigs
    /\ watch = "off"
    /\ trades \in TrackedTables
    /\ TrackerIdle
    /\ gen_in = NoInput
    /\ gen_out = NoSignal
    /\ AnalysisIdle

WeightSpec == WeightInit /\ [][TrackNext]_vars

----------------------------------------------------------------------------
(* Properties of the check cycle *)

Ids == 1..Len(trades)

\* the events of a list that belong to position i, in order
RECURSIVE EventsOf(_, _)
EventsOf(evs, i) ==
    IF evs = <<>> THEN <<>>
    ELSE IF Head(evs).id = i THEN <<Head(evs)>> \o EventsOf(Tail(evs), i)
    ELSE EventsOf(Tail(evs), i)

Rank(type) ==
    IF type = "STOP_LOSS" THEN 0 ELSE IF type = "TP1" THEN 1
    ELSE IF type = "TP2" THEN 2 ELSE 3

HitFlag(row, k) ==
    IF k = 1 THEN row.tp1_hit ELSE IF k = 2 THEN row.tp2_hit ELSE row.tp3_hit

\* the stop / target conditions as the design states them
StopCondition(row, price) ==
    IF row.side = "LONG" THEN price <= row.stop ELSE price >= row.stop

\* the check coroutine takes a step
CheckStepped == pc' # pc \/ idx' # idx

\* C1: over any sequence of check cycles every position gets at most one
\* notification of each event type, and no step notifies TPk for a position
\* whose tpk_hit flag is already set in the store.
C1_AtMostOneEventPerType ==
    /\ [](\A key \in DOMAIN sent_count : sent_count[key] <= 1)
    /\ [][\A i \in Ids : \A k \in 1..3 :
            HitFlag(trades[i], k) =>
                sent_count'[<<i, TpType(k)>>] = sent_count[<<i, TpType(k)>>]]_vars

\* a later cycle evaluates, at a price beyond tp1, a position whose TP1 was
\* notified by an earlier cycle, and passes the TP1 check without an event
C1_Witness ==
    /\ pc = "tp2"
    /\ tp_results = <<>>
    /\ CurSignal.tp1_hit
    /\ sent_count[<<CurId, "TP1">>] = 1
    /\ CurSignal.symbol \in fetched
    /\ IF CurSignal.side = "LONG" THEN CurPrice >= CurSignal.tp1
       ELSE CurPrice <= CurSignal.tp1

\* C2: once a position is CLOSED no step changes its record or notifies an
\* event for it, whatever price later cycles observe.
C2_ClosedIsFinal ==
    [][\A i \in Ids :
         trades[i].status = "CLOSED" =>
            /\ trades'[i] = trades[i]
            /\ \A ty \in EventTypes :
                 sent_count'[<<i, ty>>] = sent_count[<<i, ty>>]]_vars

\* a cycle started after a LONG position was stopped out runs with a fetched
\* price at or beyond that position's tp3
C2_Witness ==
    /\ pc \in {"stop", "tp1", "tp2", "tp3", "return"}
    /\ \E i \in Ids :
         /\ trades[i].status = "CLOSED"
         /\ sent_count[<<i, "STOP_LOSS">>] = 1
         /\ \A n \in 1..Len(active_signals) : active_signals[n] # i
         /\ trades[i].side = "LONG"
         /\ trades[i].symbol \in fetched
         /\ price_cache[trades[i].symbol] >= trades[i].tp3

\* C3: in a cycle in which the price fetch of a symbol fails, no position of
\* that symbol is mutated and no event is notified for it.
C3_FailedFetchNoEffect ==
    [][\A i \in Ids :
         (pc \in {"stop", "tp1", "tp2", "tp3"} /\ trades[i].symbol \notin fetched) =>
            /\ trades'[i] = trades[i]
            /\ \A ty \in EventTypes :
                 sent_count'[<<i, ty>>] = sent_count[<<i, ty>>]]_vars

\* C4: a position with tp3_hit set is CLOSED.
C4_Tp3HitImpliesClosed ==
    \A i \in Ids : trades[i].tp3_hit => trades[i].status = "CLOSED"

\* C5 as stated: at most one event is notified per position in one cycle.
C5_OneEventPerPositionPerCycle ==
    \A i \in Ids : Len(EventsOf(notified, i)) <= 1

\* C5 as amended: in one cycle the events of a position are either a single
\* STOP_LOSS or TP events in strictly increasing level order (each type at
\* most once, up to three when the price is beyond several unhit levels).
C5_EventsOrderedPerCycle ==
    \A i \in Ids :
        LET evs == EventsOf(notified, i)
        IN  \A m, n \in 1..Len(evs) :
                m < n => /\ Rank(evs[m].type) >= 1
                         /\ Rank(evs[m].type) < Rank(evs[n].type)

\* one cycle has notified TP1, TP2 and TP3_FULL for the same position
C5_Witness ==
    \E i \in Ids :
        LET evs == EventsOf(notified, i)
        IN  /\ Len(evs) = 3
            /\ evs[1].type = "TP1" /\ evs[2].type = "TP2" /\ evs[3].type = "TP3_FULL"

\* C6: the list check_all_signals returns is the list of the events notified
\* during the cycle.
C6_ReturnedEqualsNotified ==
    pc = "return" => results = notified

\* C7: when the stop condition of the position under check holds at the cached
\* price, the step either closes it and notifies exactly one STOP_LOSS, or
\* (the store raising) leaves it as it was; in both cases no hit-flag changes
\* and no TP event is notified, and a STOP_LOSS is the only event of its
\* position in the cycle.
C7_StopWins ==
    /\ [][(pc = "stop" /\ CheckStepped /\ CurPrice # 0
            /\ StopCondition(CurSignal, CurPrice)) =>
          LET i == CurId
          IN  /\ \A k \in 1..3 : HitFlag(trades'[i], k) = HitFlag(trades[i], k)
              /\ \A k \in 1..3 :
                   sent_count'[<<i, TpType(k)>>] = sent_count[<<i, TpType(k)>>]
              /\ \/ /\ pc' = "idle"
                    /\ trades' = trades
                    /\ sent_count' = sent_count
                 \/ /\ pc' \in {"stop", "return"}
                    /\ trades'[i].status = "CLOSED"
                    /\ EventsOf(notified', i) =
                         <<Event("STOP_LOSS", i, CurPrice, trades'[i].pnl)>>
                    /\ sent_count'[<<i, "STOP_LOSS">>] = 1]_vars
    /\ [](\A i \in Ids :
            LET evs == EventsOf(notified, i)
            IN  (\E n \in 1..Len(evs) : evs[n].type = "STOP_LOSS") => Len(evs) = 1)

\* a SHORT position was stopped out at a price at or beyond its stop
C7_Witness ==
    \E n \in 1..Len(notified) :
        /\ notified[n].type = "STOP_LOSS"
        /\ trades[notified[n].id].side = "SHORT"
        /\ trades[notified[n].id].status = "CLOSED"
        /\ notified[n].hit_price >= trades[notified[n].id].stop

\* C8: status never goes from CLOSED back to OPEN, close_trade is applied to
\* a position at most once, and a position is CLOSED exactly when one of its
\* STOP_LOSS / TP3_FULL transitions has happened.
C8_ClosedOnce ==
    /\ [][\A i \in Ids : trades[i].status = "CLOSED" => trades'[i].status = "CLOSED"]_vars
    /\ [](\A i \in Ids :
            /\ trades[i].status \in {"OPEN", "CLOSED"}
            /\ close_count[i] <= 1
            /\ (trades[i].status = "CLOSED") = (close_count[i] = 1)
            /\ close_count[i] =
                 sent_count[<<i, "STOP_LOSS">>] + sent_count[<<i, "TP3_FULL">>])

\* one position was closed by its stop and another by its tp3
C8_Witness ==
    \E i, j \in Ids :
        /\ trades[i].status = "CLOSED" /\ sent_count[<<i, "STOP_LOSS">>] = 1
        /\ trades[j].status = "CLOSED" /\ sent_count[<<j, "TP3_FULL">>] = 1

\* C11: an event whose notification could not be delivered keeps its store
\* mutation (hit-flag set / position closed), the failure reaches nobody, the
\* cycle runs to its return and the list it returns contains the event.
C11_FailedDeliveryStillReported ==
    /\ propagated = {}
    /\ pc = "return" =>
         \A n \in 1..Len(notified) :
            ~delivered[n] =>
                LET ev == notified[n]
                IN  /\ IF ev.type \in {"STOP_LOSS", "TP3_FULL"}
                       THEN trades[ev.id].status = "CLOSED"
                       ELSE HitFlag(trades[ev.id], Rank(ev.type))
                    /\ \E m \in 1..Len(results) : results[m] = ev

\* C12: at most one execution of Engine.run is in progress at any time (the
\* check coroutine has a single starter, the signal_check job).
C12_NoOverlappingScans ==
    Cardinality({r \in Runners : run_pc[r] # "idle"}) <= 1

\* C13: no exception of a cycle reaches the scheduler; the step in which a
\* cycle is aborted leaves the other task where it was, and whenever a task
\* is idle its next cycle can start.
C13_ErrorsAbortOnlyTheCycle ==
    /\ [](propagated = {})
    /\ [][/\ (pc # "idle" /\ pc' = "idle") => UNCHANGED scanVars
          /\ (run_pc # run_pc') => UNCHANGED trackerVars]_vars
    /\ [](pc = "idle" => ENABLED (CheckNothingOpen \/ CheckBegin))
    /\ [](run_pc["scheduled"] = "idle" => ENABLED RunStart("scheduled"))

\* a check cycle is evaluating a position that an aborted cycle left with
\* tp3_hit set and status OPEN
C13_Witness ==
    /\ pc = "stop"
    /\ CurSignal.tp3_hit
    /\ CurSignal.status = "OPEN"
    /\ CurSignal.symbol \in fetched

\* what the design prescribes for one position checked on its own, from its
\* record as loaded and the cached price of its symbol
TpDue(row, k, price) ==
    /\ ~HitFlag(row, k)
    /\ IF row.side = "LONG" THEN price >= TpLevel(row, k) ELSE price <= TpLevel(row, k)

AloneEvents(row, id, price) ==
    IF price = 0 THEN <<>>
    ELSE IF StopCondition(row, price)
    THEN <<Event("STOP_LOSS", id, price, PnlAt(row, row.stop))>>
    ELSE (IF TpDue(row, 1, price)
          THEN <<Event("TP1", id, price, PnlAt(row, row.tp1))>> ELSE <<>>)
         \o (IF TpDue(row, 2, price)
             THEN <<Event("TP2", id, price, PnlAt(row, row.tp2))>> ELSE <<>>)
         \o (IF TpDue(row, 3, price)
             THEN <<Event("TP3_FULL", id, price, PnlAt(row, row.tp3))>> ELSE <<>>)

AloneRow(row, price) ==
    IF price = 0 THEN row
    ELSE IF StopCondition(row, price)
    THEN [row EXCEPT !.status = "CLOSED", !.pnl = PnlAt(row, row.stop),
                     !.closed_at = "TIMESTAMP"]
    ELSE [row EXCEPT !.tp1_hit = @ \/ TpDue(row, 1, price),
                     !.tp2_hit = @ \/ TpDue(row, 2, price),
                     !.tp3_hit = @ \/ TpDue(row, 3, price),
                     !.status = IF TpDue(row, 3, price) THEN "CLOSED" ELSE @,
                     !.pnl = IF TpDue(row, 3, price) THEN PnlAt(row, row.tp3) ELSE @,
                     !.closed_at = IF TpDue(row, 3, price) THEN "TIMESTAMP" ELSE @]

\* position number n of the batch was treated as it would be on its own
TreatedAlone(n) ==
    LET i == active_signals[n]
        price == price_cache[loaded[n].symbol]
    IN  /\ trades[i] = AloneRow(loaded[n], price)
        /\ EventsOf(notified, i) = AloneEvents(loaded[n], i, price)

\* C14 as stated (its consequence for the rest of a batch): when a cycle
\* ends, however it ends, every position of the batch other than the one
\* being processed has been treated as it would be on its own.
C14_OutcomeIndependentOfOthers ==
    [][(pc \in {"stop", "tp1", "tp2", "tp3"} /\ pc' \in {"idle", "return"}) =>
          \A n \in 1..Len(active_signals) : n # idx => TreatedAlone(n)]_vars

\* C14 as amended: in a cycle that runs to its return every position of the
\* batch is treated as it would be on its own, whatever the other positions
\* and their order (a store error aborts the cycle, and the positions after
\* the one being processed are then not evaluated in that cycle).
C14_IndependentUnlessAborted ==
    \A n \in 1..Len(active_signals) :
        (pc = "return" \/ n < idx) => TreatedAlone(n)

\* a cycle returns after a batch of two positions of opposite sides, one
\* stopped out and the other with TP events
C14_Witness ==
    /\ pc = "return"
    /\ Len(active_signals) = 2
    /\ loaded[1].side # loaded[2].side
    /\ \E n, m \in 1..2 :
         /\ trades[active_signals[n]].status = "CLOSED"
         /\ EventsOf(notified, active_signals[n])[1].type = "STOP_LOSS"
         /\ EventsOf(notified, active_signals[m])[1].type = "TP1"

\* ten times the weighted entry of a row: entry_a when there is no entry_b,
\* else entry_a * 0.7 + entry_b * 0.3
WeightedEntry10(row) ==
    IF row.entry_b = 0 THEN 10 * row.entry_a
    ELSE 7 * row.entry_a + 3 * row.entry_b

\* the level an event of the given type exits at
ExitOf(row, type) ==
    IF type = "STOP_LOSS" THEN row.stop
    ELSE IF type = "TP1" THEN row.tp1
    ELSE IF type = "TP2" THEN row.tp2
    ELSE row.tp3

\* (exit - weighted)/weighted * 100 for LONG, (weighted - exit)/weighted * 100
\* for SHORT, as the fraction <<numerator, denominator>>
ExpectedPnl(row, type) ==
    IF row.side = "LONG"
    THEN <<(10 * ExitOf(row, type) - WeightedEntry10(row)) * 100, WeightedEntry10(row)>>
    ELSE <<(WeightedEntry10(row) - 10 * ExitOf(row, type)) * 100, WeightedEntry10(row)>>

\* C15: the pnl of every event is computed from the weighted entry with the
\* triggered level (stop, tp1, tp2, tp3) as the exit, by the LONG / SHORT
\* formula, and the pnl stored at close is the pnl of the closing event.
C15_PnlFromLevelAndWeightedEntry ==
    /\ \A n \in 1..Len(notified) :
         LET ev == notified[n]
             row == trades[ev.id]
         IN  /\ ev.pnl = ExpectedPnl(row, ev.type)
             /\ ev.type \in {"STOP_LOSS", "TP3_FULL"} => row.pnl = ev.pnl
    /\ \A i \in Ids :
         trades[i].status = "CLOSED" =>
            trades[i].pnl = ExpectedPnl(trades[i],
                                IF sent_count[<<i, "STOP_LOSS">>] = 1
                                THEN "STOP_LOSS" ELSE "TP3_FULL")

\* a SHORT position without averaging entry was stopped out at a price
\* beyond its stop
C15_Witness ==
    \E n \in 1..Len(notified) :
        /\ notified[n].type = "STOP_LOSS"
        /\ trades[notified[n].id].side = "SHORT"
        /\ trades[notified[n].id].entry_b = 0
        /\ notified[n].hit_price > trades[notified[n].id].stop
        /\ trades[notified[n].id].status = "CLOSED"
        /\ trades[notified[n].id].pnl = notified[n].pnl

\* the check coroutine is at the stop-loss check of the scenario position
\* with tp1 already hit, the cached price being 94
AtScenarioB ==
    /\ pc = "stop"
    /\ loaded[idx] = [open_trade(<<>>, ScenarioPosition)[1] EXCEPT !.tp1_hit = TRUE]
    /\ CurPrice = 94

\* the step closes the position under check with one STOP_LOSS of this pnl
StoppedOutWith(pnl) ==
    /\ trades'[CurId].status = "CLOSED"
    /\ trades'[CurId].pnl = pnl
    /\ EventsOf(notified', CurId) = <<Event("STOP_LOSS", CurId, CurPrice, pnl)>>

\* C16 as stated: in scenario B the STOP_LOSS pnl is (94 - 99.4)/99.4*100,
\* the observed price being the exit, and the position becomes CLOSED.
C16_ScenarioB_ExitAtObservedPrice ==
    [][(AtScenarioB /\ pc' # "idle") => StoppedOutWith(<<(940 - 994) * 100, 994>>)]_vars

\* C16 as amended: in scenario B the STOP_LOSS pnl is (95 - 99.4)/99.4*100
\* (about -4.43%), the stop price being the exit, and the position becomes
\* CLOSED.
C16_ScenarioB_ExitAtStop ==
    [][(AtScenarioB /\ pc' # "idle") => StoppedOutWith(<<(950 - 994) * 100, 994>>)]_vars

\* scenario B has happened: the scenario position, tp1 hit in an earlier
\* cycle, was stopped out by a cycle that observed 94
C16_Witness ==
    \E n \in 1..Len(notified) :
        /\ notified[n].type = "STOP_LOSS"
        /\ notified[n].hit_price = 94
        /\ trades[notified[n].id].tp1_hit
        /\ sent_count[<<notified[n].id, "TP1">>] = 1
        /\ trades[notified[n].id].entry_b = 98
        /\ trades[notified[n].id].stop = 95
        /\ trades[notified[n].id].status = "CLOSED"

\* C17: a TP1 / TP2 block never changes status, pnl or closed_at of any row;
\* when its target is reached, its flag unset and the store does not raise, it
\* sets exactly that flag and notifies TPk; so a position that was neither
\* stopped out nor at tp3 is OPEN with pnl and closed_at unset.
C17_TpOnlySetsFlag ==
    /\ [][\A k \in 1..2 :
            pc = (IF k = 1 THEN "tp1" ELSE "tp2") =>
                /\ \A i \in Ids :
                     /\ trades'[i].status = trades[i].status
                     /\ trades'[i].pnl = trades[i].pnl
                     /\ trades'[i].closed_at = trades[i].closed_at
                     /\ (i # CurId \/ ~TpDue(CurSignal, k, CurPrice)) =>
                            trades'[i] = trades[i]
                /\ (TpDue(CurSignal, k, CurPrice) /\ pc' # "idle" /\ CheckStepped) =>
                     /\ trades'[CurId] = mark_tp_hit(trades, CurId, k)[CurId]
                     /\ HitFlag(trades'[CurId], k)
                     /\ notified' = Append(notified,
                            Event(TpType(k), CurId, CurPrice,
                                  ExpectedPnl(CurSignal, TpType(k))))]_vars
    /\ [](\A i \in Ids :
            (sent_count[<<i, "STOP_LOSS">>] = 0 /\ sent_count[<<i, "TP3_FULL">>] = 0) =>
                /\ trades[i].status = "OPEN"
                /\ trades[i].pnl = NullPnl
                /\ trades[i].closed_at = "NULL")

\* scenario A has happened: price 105 against tp1 = 105 notified TP1 with
\* pnl (105 - 99.4)/99.4*100, tp1_hit is set and the position is OPEN
C17_Witness ==
    /\ pc = "return"
    /\ \E n \in 1..Len(notified) :
         /\ notified[n] = Event("TP1", notified[n].id, 105, <<(1050 - 994) * 100, 994>>)
         /\ trades[notified[n].id].tp1 = 105
         /\ trades[notified[n].id].tp1_hit
         /\ ~trades[notified[n].id].tp2_hit
         /\ trades[notified[n].id].status = "OPEN"

\* LONG: stop < entry_a; SHORT: stop > entry_a
WellFormedStop(row) ==
    IF row.side = "LONG" THEN row.stop < row.entry_a ELSE row.stop > row.entry_a

\* entry_b is present and the weighted entry lies beyond the stop
WeightedEntryBeyondStop(row) ==
    /\ row.entry_b # 0
    /\ IF row.side = "LONG" THEN WeightedEntry10(row) < 10 * row.stop
       ELSE WeightedEntry10(row) > 10 * row.stop

\* C18: the pnl of a STOP_LOSS event of a well-formed position is positive
\* when entry_b is present and the weighted entry lies beyond the stop, and
\* is <= 0 in every other case.
C18_StopLossPnlSign ==
    \A n \in 1..Len(notified) :
        LET ev == notified[n]
            row == trades[ev.id]
        IN  (ev.type = "STOP_LOSS" /\ WellFormedStop(row)) =>
                /\ ev.pnl[2] > 0
                /\ IF WeightedEntryBeyondStop(row) THEN ev.pnl[1] > 0
                   ELSE ev.pnl[1] <= 0

\* a well-formed SHORT position whose weighted entry lies above its stop was
\* stopped out with a positive pnl
C18_Witness ==
    \E n \in 1..Len(notified) :
        /\ notified[n].type = "STOP_LOSS"
        /\ notified[n].pnl[1] > 0
        /\ trades[notified[n].id].side = "SHORT"
        /\ WellFormedStop(trades[notified[n].id])

----------------------------------------------------------------------------
(* Properties of generate *)

IsSignal == gen_out # Pending /\ gen_out # NoSignal

\* C9: generate returns a Signal only if the predictor's direction and the
\* scorer's net_score have the same non-zero sign: LONG only for direction +1
\* with net_score > 0, SHORT only for direction -1 with net_score < 0.
C9_SignalOnlyOnAgreement ==
    IsSignal =>
        LET direction == Predict(gen_in.proba).direction
            net_score == SignalStrength(gen_in.bull, gen_in.bear).net_score
        IN  \/ (gen_out.side = "LONG" /\ direction = 1 /\ net_score > 0)
            \/ (gen_out.side = "SHORT" /\ direction = -1 /\ net_score < 0)

\* C10: every returned Signal has its levels strictly ordered: LONG
\* stop < entry_a < tp1 < tp2 < tp3 and entry_b < entry_a when present;
\* SHORT mirrored.
C10_LevelOrdering ==
    IsSignal =>
        IF gen_out.side = "LONG"
        THEN /\ gen_out.stop < gen_out.entry_a
             /\ gen_out.entry_a < gen_out.tp1
             /\ gen_out.tp1 < gen_out.tp2
             /\ gen_out.tp2 < gen_out.tp3
             /\ gen_out.entry_b # 0 => gen_out.entry_b < gen_out.entry_a
        ELSE /\ gen_out.side = "SHORT"
             /\ gen_out.stop > gen_out.entry_a
             /\ gen_out.entry_a > gen_out.tp1
             /\ gen_out.tp1 > gen_out.tp2
             /\ gen_out.tp2 > gen_out.tp3
             /\ gen_out.entry_b # 0 => gen_out.entry_b > gen_out.entry_a

\* generate returned a SHORT signal with an averaging entry
C10_Witness ==
    /\ IsSignal
    /\ gen_out.side = "SHORT"
    /\ gen_out.entry_b > gen_out.entry_a
    /\ Predict(gen_in.proba).direction = -1

\* the two confidences of the call under study, in percent and as a fraction
ScorerConfNum == Abs(gen_in.bull - gen_in.bear)
ScorerConfDen == IF gen_in.bull + gen_in.bear >= 1 THEN gen_in.bull + gen_in.bear ELSE 1
PredictorConf ==
    IF ~gen_in.proba.ok THEN 0
    ELSE IF gen_in.proba.long >= gen_in.proba.short THEN gen_in.proba.long
    ELSE gen_in.proba.short

\* the arithmetic mean of the two is MeanNum / MeanDen
MeanNum == 100 * ScorerConfNum + PredictorConf * ScorerConfDen
MeanDen == 200 * ScorerConfDen

\* C19: a returned Signal carries the mean of the scorer and predictor
\* confidences, that value is in [0,1] and >= MIN_CONFIDENCE; when the mean
\* is below MIN_CONFIDENCE generate returns none.
C19_ConfidenceIsGatedMean ==
    /\ IsSignal =>
         /\ gen_out.conf_den > 0
         /\ gen_out.conf_num * MeanDen = MeanNum * gen_out.conf_den
         /\ 0 <= gen_out.conf_num /\ gen_out.conf_num <= gen_out.conf_den
         /\ 100 * gen_out.conf_num >= cfg.MIN_CONFIDENCE * gen_out.conf_den
    /\ (gen_out # Pending /\ 100 * MeanNum < cfg.MIN_CONFIDENCE * MeanDen) =>
         gen_out = NoSignal

\* generate returned a Signal whose confidence is exactly MIN_CONFIDENCE
\* (scorer 0.5, predictor 0.7, minimum 0.6)
C19_Witness ==
    /\ IsSignal
    /\ cfg.MIN_CONFIDENCE = 60
    /\ 2 * ScorerConfNum = ScorerConfDen
    /\ PredictorConf = 70
    /\ 100 * gen_out.conf_num = cfg.MIN_CONFIDENCE * gen_out.conf_den

\* C20: generate returns none whenever the latest ADX is below MIN_ADX,
\* whatever the confidences, the direction and the net score.
C20_WeakTrendRejected ==
    (gen_out # Pending /\ gen_in.adx < MIN_ADX) => gen_out = NoSignal

\* scenario D: generate returned none for a frame with ADX 15 that passes
\* every other gate (full confidence, direction and net score agreeing)
C20_Witness ==
    /\ gen_out = NoSignal
    /\ gen_in.adx = 15
    /\ ~gen_in.raises
    /\ gen_in.rows >= 10
    /\ gen_in.proba.ok /\ gen_in.proba.long = 100
    /\ gen_in.bull = MaxScore /\ gen_in.bear = 0

----------------------------------------------------------------------------
(* Properties of generate, the scorer and the predictor as units *)

\* C21: generate never raises to its caller: an exception inside its body
\* (indicators, scoring, prediction with its lazy fit, level construction)
\* makes it return None, and the call changes neither the trade table nor
\* anything the notifier records.
C21_GenerateNeverRaises ==
    /\ [](gen_out # Raised)
    /\ []((gen_out # Pending /\ gen_in.raises) => gen_out = NoSignal)
    /\ [][gen_out' # gen_out =>
            UNCHANGED <<trades, notified, delivered, sent_count, close_count>>]_vars

\* a frame that passes every gate, with an exception raised on the way
C21_Witness ==
    /\ gen_out = NoSignal
    /\ gen_in.raises
    /\ gen_in.rows >= 10
    /\ gen_in.adx = 25
    /\ gen_in.proba.ok /\ gen_in.proba.long = 100
    /\ gen_in.bull = MaxScore /\ gen_in.bear = 0

\* C22: for every frame the scorer's two scores are non-negative integers,
\* net_score is their difference and confidence = |net_score| /
\* max(bullish_score + bearish_score, 1) lies in [0, 1]; the predictor's
\* confidence lies in [0, 1] on every outcome, the fail-soft ones included.
C22_ConfidenceBounds ==
    /\ ta_out # PendingStrength =>
         /\ ta_out.bullish_score \in Nat
         /\ ta_out.bearish_score \in Nat
         /\ ta_out.net_score = ta_out.bullish_score - ta_out.bearish_score
         /\ ta_out.conf_num = Abs(ta_out.net_score)
         /\ ta_out.conf_den = Max(ta_out.bullish_score + ta_out.bearish_score, 1)
         /\ 0 <= ta_out.conf_num
         /\ ta_out.conf_num <= ta_out.conf_den
    /\ pred_out.confidence \in 0..100

\* a frame with points on both sides and more bearish than bullish ones
C22_Witness ==
    /\ ta_out # PendingStrength
    /\ ta_out.bullish_score > 0
    /\ ta_out.bearish_score > ta_out.bullish_score
    /\ ta_in.rsi = 20

\* a predict call has returned in this step
PredictReturned == <<pred_in, pred_out, trained>>' # <<pred_in, pred_out, trained>>

\* C23: predict returns direction 0 with confidence 0, and does not raise,
\* when a feature column is absent, when a feature of the last row is NaN,
\* or when the classifier is unfit and the frame does not allow a fit; it
\* returns +1 or -1 only with a fitted classifier and a last row whose
\* features are all present and numeric.
C23_PredictFailsSoft ==
    [][PredictReturned =>
         /\ ~pred_out'.raised
         /\ (\/ ~pred_in'.features
             \/ pred_in'.last_nan
             \/ (~trained /\ pred_in'.rows < MinTrainRows))
            => (pred_out'.direction = 0 /\ pred_out'.confidence = 0)
         /\ pred_out'.direction \in {1, -1} =>
              (trained' /\ pred_in'.features /\ ~pred_in'.last_nan)]_vars

\* the lazy fit has run on the frame, and its last row holds a NaN
C23_Witness ==
    /\ fit_passes = 1
    /\ trained
    /\ pred_in.features
    /\ pred_in.last_nan
    /\ pred_in.rows = MinTrainRows
    /\ pred_in.accuracy = 60
    /\ pred_in.predict_proba = "two_classes"
    /\ pred_out = FailSoft

\* C24: a fit pass is started only by a predict call made while the
\* classifier is unfit, at most once in that call; the flag trained never
\* goes back to false, so that at most one fit pass ever runs; a frame with
\* fewer than 50 labelled rows starts no fit, leaves the classifier unfit
\* and makes the call return direction 0 with confidence 0.
C24_LazyFitOnce ==
    /\ [](fit_passes <= 1)
    /\ [][/\ trained => (trained' /\ fit_passes' = fit_passes)
          /\ fit_passes' \in {fit_passes, fit_passes + 1}
          /\ fit_passes' > fit_passes => (~trained /\ trained')
          /\ (PredictReturned /\ ~trained /\ pred_in'.rows < MinTrainRows) =>
               /\ fit_passes' = fit_passes
               /\ ~trained'
               /\ pred_out'.direction = 0
               /\ pred_out'.confidence = 0]_vars

\* after the one fit, a call on a short frame predicts without fitting
C24_Witness ==
    /\ fit_passes = 1
    /\ trained
    /\ pred_in.rows = MinTrainRows - 1
    /\ pred_out.direction = 1

\* the call that returns in this step reaches the comparison of line 184
PredictSucceeds ==
    /\ PredictReturned
    /\ pred_in'.features
    /\ ~pred_in'.last_nan
    /\ pred_in'.predict_proba = "two_classes"
    /\ trained \/ (pred_in'.rows >= MinTrainRows /\ pred_in'.accuracy > 0)

\* C30: a successful prediction has direction +1 exactly when the
\* probability of class +1 is strictly greater than that of class -1 and -1
\* otherwise, its confidence is the larger of the two probabilities; on a
\* tie it is -1 with the tied probability; it is never 0.
C30_DirectionByStrictComparison ==
    [][PredictSucceeds =>
         /\ pred_out'.direction =
              (IF pred_in'.proba.long > pred_in'.proba.short THEN 1 ELSE -1)
         /\ pred_out'.confidence =
              (IF pred_in'.proba.long >= pred_in'.proba.short
               THEN pred_in'.proba.long ELSE pred_in'.proba.short)
         /\ pred_in'.proba.long = pred_in'.proba.short =>
              (pred_out'.direction = -1 /\ pred_out'.confidence = pred_in'.proba.long)
         /\ pred_out'.direction # 0]_vars

\* a tie predicted by a fitted classifier
C30_Witness ==
    /\ trained
    /\ pred_in.features /\ ~pred_in.last_nan
    /\ pred_in.predict_proba = "two_classes"
    /\ pred_in.proba.long = 50 /\ pred_in.proba.short = 50
    /\ pred_out.direction = -1
    /\ pred_out.confidence = 50

----------------------------------------------------------------------------
(* Properties of the rows of the trade table *)

\* C25: each of tp1_hit, tp2_hit, tp3_hit is false when the row is created
\* and no step of the store or the tracker changes it from true to false.
C25_HitFlagsMonotonic ==
    [][/\ Len(trades') >= Len(trades)
       /\ \A i \in Ids, k \in 1..3 : HitFlag(trades[i], k) => HitFlag(trades'[i], k)
       /\ \A i \in (1..Len(trades')) \ Ids, k \in 1..3 : ~HitFlag(trades'[i], k)]_vars

\* tp1 and tp2 were flagged in an earlier cycle; a later cycle flagged tp3
\* and both flags are still set
C25_Witness ==
    \E i \in Ids :
        /\ trades[i].tp1_hit /\ trades[i].tp2_hit /\ trades[i].tp3_hit
        /\ sent_count[<<i, "TP1">>] = 1
        /\ sent_count[<<i, "TP2">>] = 1
        /\ EventsOf(notified, i) = <<Event("TP3_FULL", i, 107, trades[i].pnl)>>

\* C26: pnl and closed_at are unset in every state where the row is OPEN,
\* they are set in the step that sets status to CLOSED, and they do not
\* change afterwards.
C26_PnlSetOnceAtClose ==
    /\ [](\A i \in Ids :
            /\ trades[i].status = "OPEN" =>
                 (trades[i].pnl = NullPnl /\ trades[i].closed_at = "NULL")
            /\ trades[i].status = "CLOSED" =>
                 (trades[i].pnl # NullPnl /\ trades[i].closed_at = "TIMESTAMP"))
    /\ [][\A i \in Ids :
            trades[i].status = "CLOSED" =>
                /\ trades'[i].status = "CLOSED"
                /\ trades'[i].pnl = trades[i].pnl
                /\ trades'[i].closed_at = trades[i].closed_at]_vars

\* a row closed in an earlier cycle, while a later cycle checks another row
C26_Witness ==
    \E i \in Ids :
        /\ trades[i].status = "CLOSED"
        /\ trades[i].pnl # NullPnl
        /\ close_count[i] = 1
        /\ pc = "stop"
        /\ CurId # i
        /\ EventsOf(notified, i) = <<>>
        /\ EventsOf(results, i) = <<>>

\* the columns written by open_trade only
Immutable(row) ==
    <<row.symbol, row.side, row.entry_a, row.entry_b, row.stop, row.tp1, row.tp2,
      row.tp3>>

\* C27: no scan, check or /force step deletes a row or changes its id,
\* symbol, side, entry_a, entry_b, stop, tp1, tp2 or tp3: the table only
\* grows at its end and only the hit-flags, status, pnl and closed_at of an
\* existing row change.
C27_RowsKept ==
    [][/\ Len(trades') >= Len(trades)
       /\ \A i \in Ids : Immutable(trades'[i]) = Immutable(trades[i])]_vars

\* a first row that went through all its flags and was closed, a second row
\* opened by a /force scan that is still running
C27_Witness ==
    /\ Len(trades) = 2
    /\ trades[1].status = "CLOSED"
    /\ trades[1].tp1_hit /\ trades[1].tp2_hit /\ trades[1].tp3_hit
    /\ trades[2].status = "OPEN"
    /\ run_pc["force"] = "loop"
    /\ sent["force"] = 1

----------------------------------------------------------------------------
(* Properties of the threads of a scan *)

\* the signal_check job starts a check cycle
CheckStart ==
    \/ CheckLoadFails
    \/ CheckNothingOpen
    \/ CheckBegin

\* C28: every blocking step of a scan (history fetch, indicator computation,
\* classifier fit and prediction) runs off the event-loop thread: whenever a
\* scan is in progress the thread is free and a check cycle that is due can
\* start.
C28_ScanLeavesLoopFree ==
    (run_pc["scheduled"] # "idle" /\ pc = "idle") =>
        (busy = "none" /\ ENABLED CheckStart)

----------------------------------------------------------------------------
(* Progress of the check cycles *)

\* in the cycle that is running the price of the position was fetched and
\* lies at or beyond level k (0 = the stop)
ObservedBeyond(k) ==
    pc # "idle" =>
        /\ trades[1].symbol \in fetched
        /\ IF k = 0
           THEN stop_hit(trades[1], price_cache[trades[1].symbol])
           ELSE tp_reached(trades[1], k, price_cache[trades[1].symbol])

ClosedWith(type) ==
    /\ trades[1].status = "CLOSED"
    /\ sent_count[<<1, type>>] = 1

\* C29: with check cycles recurring, fetches succeeding and store calls
\* succeeding in the end, a position whose observed price stays at or beyond
\* tp3 is eventually CLOSED with a TP3_FULL event, and one whose observed
\* price stays at or beyond its stop is eventually CLOSED with a STOP_LOSS
\* event, also after a cycle that a store error aborted part-way.
C29_EventuallyClosed ==
    /\ []<>(~ObservedBeyond(3) \/ ClosedWith("TP3_FULL"))
    /\ []<>(~ObservedBeyond(0) \/ ClosedWith("STOP_LOSS"))

----------------------------------------------------------------------------
(* Properties of scans and checks together *)

\* the step adds a row to the table
RowCreated == Len(trades') = Len(trades) + 1

\* the levels of a Signal, as open_trade receives them
SignalFields(sig) ==
    <<sig.symbol, sig.side, sig.entry_a, sig.entry_b, sig.stop, sig.tp1, sig.tp2,
      sig.tp3>>

\* C31: a position created by a scan is stored OPEN, with the three
\* hit-flags false and pnl unset, with exactly the symbol, side, entry_a,
\* entry_b, stop, tp1, tp2, tp3 of the Signal generate returned for the
\* symbol, and the next check cycle loads it among the open positions.
C31_CreatedAsGenerated ==
    [][/\ Len(trades') \in {Len(trades), Len(trades) + 1}
       /\ RowCreated =>
            LET row == trades'[Len(trades')]
            IN  /\ run_pc["scheduled"] = "loop"
                /\ row.status = "OPEN"
                /\ ~row.tp1_hit /\ ~row.tp2_hit /\ ~row.tp3_hit
                /\ row.pnl = NullPnl
                /\ row.closed_at = "NULL"
                /\ \E in \in ScanInputs(Head(all_data["scheduled"])) :
                     /\ generate(cfg, in) # NoSignal
                     /\ Immutable(row) = SignalFields(generate(cfg, in))
       /\ (pc = "idle" /\ pc' = "stop") =>
            \A i \in Ids : trades[i].status = "OPEN" =>
                \E n \in 1..Len(active_signals') : active_signals'[n] = i]_vars

\* a SHORT position with its averaging entry, created by a scan after the
\* first position was closed, is being checked by the next cycle
C31_Witness ==
    /\ Len(trades) = 2
    /\ trades[1].status = "CLOSED"
    /\ trades[2].side = "SHORT"
    /\ trades[2].entry_b = 102
    /\ trades[2].status = "OPEN"
    /\ pc = "stop"
    /\ active_signals = <<2>>

\* the check cycle is aborted in this step
CycleAborted == pc \in {"stop", "tp1", "tp2", "tp3"} /\ pc' = "idle"

\* C32: a notification is sent only after the store mutation it reports has
\* been committed: an event that was notified has its flag set or its row
\* closed, a new-signal message has its row; a step in which the mutation
\* raises sends no notification.
C32_NotifiedAfterCommit ==
    /\ [](\A i \in Ids :
            /\ \A k \in 1..2 : sent_count[<<i, TpType(k)>>] >= 1 => HitFlag(trades[i], k)
            /\ sent_count[<<i, "TP3_FULL">>] >= 1 =>
                 (trades[i].tp3_hit /\ trades[i].status = "CLOSED")
            /\ sent_count[<<i, "STOP_LOSS">>] >= 1 => trades[i].status = "CLOSED")
    /\ [](\A i \in (1..MaxTrades) \ Ids, type \in EventTypes : sent_count[<<i, type>>] = 0)
    /\ [][/\ sent'["scheduled"] > sent["scheduled"] => RowCreated
          /\ CycleAborted => sent_count' = sent_count]_vars

\* tp3: the flag was committed, close_trade raised, and no TP3_FULL
\* notification was sent
C32_Witness ==
    \E i \in Ids :
        /\ pc = "idle"
        /\ trades[i].tp3_hit
        /\ trades[i].status = "OPEN"
        /\ sent_count[<<i, "TP1">>] = 1
        /\ sent_count[<<i, "TP2">>] = 1
        /\ sent_count[<<i, "TP3_FULL">>] = 0

\* the targets lie on the profit side of the entry in the order tp1, tp2, tp3
WellFormedTargets(row) ==
    IF row.side = "LONG"
    THEN row.entry_a < row.tp1 /\ row.tp1 < row.tp2 /\ row.tp2 < row.tp3
    ELSE row.entry_a > row.tp1 /\ row.tp1 > row.tp2 /\ row.tp2 > row.tp3

\* C33: for a position whose targets are ordered the hit-flags form a chain
\* in every reachable state, also in the states an aborted cycle leaves
\* behind: tp3_hit implies tp2_hit and tp2_hit implies tp1_hit.
C33_HitFlagsChain ==
    \A i \in Ids :
        WellFormedTargets(trades[i]) =>
            /\ trades[i].tp3_hit => trades[i].tp2_hit
            /\ trades[i].tp2_hit => trades[i].tp1_hit

\* a cycle that observed a price beyond tp3 was aborted after the TP2 block
C33_Witness ==
    \E i \in Ids :
        /\ pc = "idle"
        /\ WellFormedTargets(trades[i])
        /\ trades[i].status = "OPEN"
        /\ trades[i].tp1_hit /\ trades[i].tp2_hit /\ ~trades[i].tp3_hit
        /\ tp_reached(trades[i], 3, price_cache[trades[i].symbol])

\* C34: a check cycle that follows a failure-free cycle, with the same price
\* for every symbol and no scan in between, emits no event and leaves every
\* position record unchanged.
C34_CycleIdempotent ==
    /\ [](watch = "repeat" => notified = <<>> /\ results = <<>> /\ tp_results = <<>>)
    /\ [][watch = "repeat" => trades' = trades /\ sent_count' = sent_count]_vars

\* the second cycle has gone through an open position that stands beyond its
\* first target, which the first cycle marked
C34_Witness ==
    /\ watch = "repeat"
    /\ pc = "return"
    /\ \E n \in 1..Len(active_signals) :
         LET row == trades[active_signals[n]]
         IN  /\ row.status = "OPEN"
             /\ row.tp1_hit
             /\ tp_reached(row, 1, price_cache[row.symbol])

\* a cycle is between its load and its return or abort
InCycle == pc \in {"stop", "tp1", "tp2", "tp3"}

\* the blocks of _check_signal in the order of the code
StageRank(p) == IF p = "stop" THEN 0 ELSE IF p = "tp1" THEN 1 ELSE IF p = "tp2" THEN 2 ELSE 3

\* the step loads the batch of a cycle
CycleLoaded == pc = "idle" /\ pc' = "stop"

\* what a step does to the batch of the cycle and to the records
BatchStep ==
    /\ CycleLoaded =>
         \A i \in Ids :
             trades[i].status = "OPEN"
                 <=> \E n \in 1..Len(active_signals') : active_signals'[n] = i
    /\ (InCycle /\ InCycle') =>
         /\ active_signals' = active_signals
         /\ loaded' = loaded
         /\ idx' \in {idx, idx + 1}
         /\ (idx' = idx + 1) => pc' = "stop"
         /\ (idx' = idx) => StageRank(pc) < StageRank(pc') \/ UNCHANGED trackerVars
    /\ (InCycle /\ pc' = "return") => idx = Len(active_signals)
    /\ RowCreated =>
         /\ \A i \in Ids : trades'[i] = trades[i]
         /\ \A n \in 1..Len(active_signals') : active_signals'[n] # Len(trades')
         /\ UNCHANGED trackerVars
    /\ (InCycle /\ ~RowCreated) =>
         /\ Len(trades') = Len(trades)
         /\ \A i \in Ids : i # CurId => trades'[i] = trades[i]

\* C35: a check cycle goes through exactly the positions that were OPEN when
\* it loaded them, one after the other and each once; a position that a scan
\* creates while the cycle is under way is not in the batch, and in the batch
\* of the next load if still OPEN; the creation changes no other record, a
\* tracker step changes only the record it is evaluating, and no event of a
\* position is notified twice.
C35_CycleOverLoadedBatch ==
    /\ [](InCycle =>
            /\ idx \in 1..Len(active_signals)
            /\ \A n \in 1..Len(active_signals) :
                 /\ active_signals[n] \in Ids
                 /\ \A k \in 1..Len(active_signals) :
                      n < k => active_signals[n] < active_signals[k])
    /\ [](\A i \in Ids, type \in EventTypes : sent_count[<<i, type>>] <= 1)
    /\ [][BatchStep]_vars

\* a scan created position 2 while the cycle over position 1 was under way,
\* after the cycle had marked the first target of position 1
C35_Witness ==
    /\ InCycle
    /\ Len(trades) = 2
    /\ active_signals = <<1>>
    /\ trades[2].status = "OPEN"
    /\ trades[1].tp1_hit
    /\ sent_count[<<1, "TP1">>] = 1
    /\ run_pc["scheduled"] = "loop"

\* C36: one execution of Engine.run creates and notifies at most
\* MAX_SIGNALS_PER_RUN positions, whatever the configured limit, 0 included:
\* a position is created only while the positions this run has created so
\* far (sent, one notification each) stay below the limit.
C36_AtMostMaxPerRun ==
    [][RowCreated => sent["scheduled"] + 1 <= cfg.MAX_SIGNALS_PER_RUN]_vars

\* the same for the limits from 1 upwards
C36_AtMostMaxPerRunFromOne ==
    [][RowCreated /\ cfg.MAX_SIGNALS_PER_RUN >= 1
         => sent["scheduled"] + 1 <= cfg.MAX_SIGNALS_PER_RUN]_vars

\* a scan under the limit 0 has created a position
C36_CreatedUnderLimitZero ==
    /\ cfg.MAX_SIGNALS_PER_RUN = 0
    /\ Len(trades) >= 1

\* LONG: optional entry_b < entry_a < tp1 < tp2 < tp3; SHORT mirrored
WellFormedPosition(row) ==
    /\ WellFormedTargets(row)
    /\ row.entry_b # 0 =>
         IF row.side = "LONG" THEN row.entry_b < row.entry_a
         ELSE row.entry_b > row.entry_a

\* the fraction p is greater than 0
Positive(p) == p[2] > 0 /\ p[1] > 0

\* the fraction p is less than the fraction q (both denominators positive)
Less(p, q) == p[1] * q[2] < q[1] * p[2]

TpTypes == <<"TP1", "TP2", "TP3_FULL">>

\* C37: for a well-formed position and weights >= 0 that sum to 1, every
\* TP1, TP2 and TP3_FULL event has pnl > 0, and the pnl of the TP events of
\* one position increases strictly from TP1 to TP2 to TP3_FULL.
C37_TpPnlPositiveAndIncreasing ==
    \A i \in Ids :
        WellFormedPosition(trades[i]) =>
            /\ \A k \in 1..3 :
                 sent_count[<<i, TpTypes[k]>>] >= 1 => Positive(pnl_log[<<i, TpTypes[k]>>])
            /\ \A k \in 1..3, l \in 1..3 :
                 /\ k < l
                 /\ sent_count[<<i, TpTypes[k]>>] >= 1
                 /\ sent_count[<<i, TpTypes[l]>>] >= 1
                 => Less(pnl_log[<<i, TpTypes[k]>>], pnl_log[<<i, TpTypes[l]>>])

\* a position with an averaging entry, weighted wholly on that entry, has
\* sent all three TP events
C37_Witness ==
    /\ cfg.POSITION_SIZE_A = 0
    /\ \E i \in Ids :
         /\ WellFormedPosition(trades[i])
         /\ trades[i].entry_b # 0
         /\ \A k \in 1..3 : sent_count[<<i, TpTypes[k]>>] = 1

====
